---- MODULE Spec2Model ----
(***************************************************************************)
(* SmartCalorie AI: the weight-impact calibration engine.                  *)
(*                                                                         *)
(* State of the useAppData hook (profile, meal logs, exercise logs, impact *)
(* history) and a wall clock; one action per handler of the hook, each     *)
(* followed by the impact-history backfill effect that React re-runs when  *)
(* profile, logs or exerciseLogs change.                                   *)
(*                                                                         *)
(* Numbers.  JavaScript numbers are modelled as exact rationals <<n, d>>   *)
(* (d > 0, lowest terms); IEEE-754 rounding is not modelled.  <<0, 0>>     *)
(* stands for an absent (undefined) number.                                *)
(* Time.  The clock counts ticks, TicksPerHour to the hour, where the code *)
(* counts milliseconds; the last instant of a day (23:59:59.999 in the     *)
(* code) is the last tick before the next midnight.  Local days are 24     *)
(* hours long (no daylight-saving shift).  Timestamp 0 is falsy in the     *)
(* code and stands for an absent timestamp.                                *)
(***************************************************************************)
EXTENDS Integers, Sequences, FiniteSets, TLC

VARIABLES now, profile, logs, exerciseLogs, impactHistory, last, windowBase,
          logChanges

\* history variable: the meals and exercises that the ACCEPT calibrations
\* made so far have summed into a predictedChange, as <<kind, id>>
VARIABLES counted

\* the water reminder (useWaterNotification): the wall clock in minutes, the
\* water settings of the profile, the water logs, the localStorage item
\* smartcalorie_water_notif_last_<id>, Notification.permission, the two
\* timers of the effect, and the notifications shown so far
VARIABLES waterClock, waterProfile, waterLogs, cooldownItem, permission,
          initialTimeout, interval, notifications

\* one call of withRetry: the loop counter, lastError, the position in the
\* loop, the outcomes of the calls of fn so far, and how the call ended
VARIABLES attempt, lastError, pc, calls, outcome

waterVars == <<waterClock, waterProfile, waterLogs, cooldownItem, permission,
               initialTimeout, interval, notifications>>
retryVars == <<attempt, lastError, pc, calls, outcome>>
engineVars == <<now, profile, logs, exerciseLogs, impactHistory, last, windowBase,
                logChanges, counted>>

vars == <<engineVars, waterVars, retryVars>>

\* the water reminder is switched off and no timer is set
WaterIdle ==
  /\ waterClock = 0
  /\ waterProfile = [waterTrackingEnabled |-> FALSE, waterNotificationEnabled |-> FALSE]
  /\ waterLogs = <<>>
  /\ cooldownItem = 0
  /\ permission = "default"
  /\ initialTimeout = 0
  /\ interval = 0
  /\ notifications = <<>>

\* no AI request is in flight
RetryIdle ==
  /\ attempt = 0
  /\ lastError = <<>>
  /\ pc = "idle"
  /\ calls = <<>>
  /\ outcome = <<>>

(***************************************************************************)
(* Exact rational arithmetic                                               *)
(***************************************************************************)
Abs(x) == IF x < 0 THEN -x ELSE x

RECURSIVE Gcd(_, _)
Gcd(a, b) == IF b = 0 THEN a ELSE Gcd(b, a % b)

Norm(n, d) ==
  LET g == Gcd(Abs(n), d) IN <<n \div g, d \div g>>

R(n, d) == Norm(n, d)
I(n) == <<n, 1>>
Undefined == <<0, 0>>
IsDefined(a) == a[2] # 0

RAdd(a, b) ==
  LET g == Gcd(a[2], b[2])
  IN Norm(a[1] * (b[2] \div g) + b[1] * (a[2] \div g), (a[2] \div g) * b[2])
RNeg(a) == <<-a[1], a[2]>>
RSub(a, b) == RAdd(a, RNeg(b))
RMul(a, b) ==
  LET g1 == Gcd(Abs(a[1]), b[2])
      g2 == Gcd(Abs(b[1]), a[2])
  IN Norm((a[1] \div g1) * (b[1] \div g2), (a[2] \div g2) * (b[2] \div g1))
RInv(a) == IF a[1] > 0 THEN <<a[2], a[1]>> ELSE <<-a[2], -a[1]>>
RDiv(a, b) == RMul(a, RInv(b))
RSign(a) == IF a[1] > 0 THEN 1 ELSE IF a[1] < 0 THEN -1 ELSE 0
RLess(a, b) == RSign(RSub(a, b)) < 0
RLeq(a, b) == RSign(RSub(a, b)) <= 0
RAbs(a) == <<Abs(a[1]), a[2]>>
RMin(a, b) == IF RLess(b, a) THEN b ELSE a
RMax(a, b) == IF RLess(a, b) THEN b ELSE a
\* Math.floor and Math.round (round half up) of a rational, as an integer
Floor(a) == a[1] \div a[2]
Round(a) == (2 * a[1] + a[2]) \div (2 * a[2])

(***************************************************************************)
(* Program constants                                                       *)
(***************************************************************************)
CALORIES_PER_KG_FAT == 7700
SedentaryMultiplier == R(12, 10)
HoursPerDay == 24
MinutesPerHour == 60
HistoryCap == 365
DefaultCalibrationFactor == I(1)
MinFactor == R(5, 10)
MaxFactor == R(15, 10)
NoiseGate == R(5, 100)
CorrectionThreshold == R(1, 1000)
RatioPerDay == R(1, 10)
MaxNewRatio == R(5, 10)
EditThreshold == R(1, 100)

(***************************************************************************)
(* Bounds of the model                                                     *)
(***************************************************************************)
TicksPerHour == 1
MaxDays == 3
MaxLogs == 1
MaxExerciseLogs == 1
\* edits and deletions of logs explored in one behaviour
MaxLogChanges == 1

TicksPerDay == HoursPerDay * TicksPerHour
\* the clock starts on local day 1 (tick 0 is the absent timestamp)
StartTick == TicksPerDay
MaxTick == StartTick + MaxDays * TicksPerDay - 1
\* steps by which the clock advances between two operations, in hours
ClockSteps == {20}

(***************************************************************************)
(* Local calendar: JavaScript Date's getFullYear / getMonth / getDate      *)
(***************************************************************************)
\* local date of day 0 of the model's clock (days 2 and 3 are Feb 29, Mar 1)
EpochDate == <<2024, 2, 27>>

IsLeap(y) == (y % 4 = 0 /\ y % 100 # 0) \/ y % 400 = 0
DaysInMonth(y, m) ==
  IF m = 2 THEN (IF IsLeap(y) THEN 29 ELSE 28)
  ELSE IF m \in {4, 6, 9, 11} THEN 30 ELSE 31
\* the first day of the month after the month of d
NextMonth(d) == IF d[2] < 12 THEN <<d[1], d[2] + 1, 1>> ELSE <<d[1] + 1, 1, 1>>
RECURSIVE DateAfter(_, _)
\* the date n days after d, month by month
DateAfter(d, n) ==
  IF n <= DaysInMonth(d[1], d[2]) - d[3] THEN <<d[1], d[2], d[3] + n>>
  ELSE DateAfter(NextMonth(d), n - (DaysInMonth(d[1], d[2]) - d[3]) - 1)
\* the local date of day n of the model's clock
CivilDate(n) == DateAfter(EpochDate, n)

\* index of the local day of instant t, its first and its last instant
DayOf(t) == t \div TicksPerDay
StartOfDay(t) == DayOf(t) * TicksPerDay
EndOfDay(t) == StartOfDay(t) + TicksPerDay - 1
getHours(t) == (t % TicksPerDay) \div TicksPerHour
getMinutes(t) == ((t % TicksPerHour) * MinutesPerHour) \div TicksPerHour
\* hours between two instants, as the code's (a - b) / (1000 * 60 * 60)
HoursBetween(a, b) == R(a - b, TicksPerHour)

\* "YYYY-MM-DD" of the local day of t: the zero-padded fields, most
\* significant first, so that string order is the order of the triples
formatDateKey(t) == CivilDate(DayOf(t))
\* a.localeCompare(b) < 0 on two date keys
DateKeyLess(a, b) ==
  \/ a[1] < b[1]
  \/ a[1] = b[1] /\ a[2] < b[2]
  \/ a[1] = b[1] /\ a[2] = b[2] /\ a[3] < b[3]

(***************************************************************************)
(* EnergyModel                                                             *)
(***************************************************************************)
calculateBmr(weight, height, age, gender) ==
  LET bmr == RSub(RAdd(RMul(I(10), weight), R(625 * height, 100)), I(5 * age))
  IN IF gender = "male" THEN RAdd(bmr, I(5)) ELSE RSub(bmr, I(161))

\* ACTIVITY_MULTIPLIERS[profile.activityLevel]; every profile is sedentary
ActivityMultiplier(p) == SedentaryMultiplier

RECURSIVE dayMealCalories(_, _, _)
\* logs.filter(timestamp in [dayStart, dayEnd]).reduce(+ totalCalories)
dayMealCalories(ls, dayStart, dayEnd) ==
  IF ls = <<>> THEN 0
  ELSE (IF Head(ls).timestamp >= dayStart /\ Head(ls).timestamp <= dayEnd
        THEN Head(ls).totalCalories ELSE 0)
       + dayMealCalories(Tail(ls), dayStart, dayEnd)

RECURSIVE dayExerciseCalories(_, _, _)
\* exerciseLogs.filter(timestamp in [dayStart, dayEnd]).reduce(+ caloriesBurned)
dayExerciseCalories(ls, dayStart, dayEnd) ==
  IF ls = <<>> THEN 0
  ELSE (IF Head(ls).timestamp >= dayStart /\ Head(ls).timestamp <= dayEnd
        THEN Head(ls).caloriesBurned ELSE 0)
       + dayExerciseCalories(Tail(ls), dayStart, dayEnd)

\* logs.some(...) || exerciseLogs.some(...)
hasLogs(ls, els, dayStart, dayEnd) ==
  \/ \E i \in 1..Len(ls) : ls[i].timestamp >= dayStart /\ ls[i].timestamp <= dayEnd
  \/ \E i \in 1..Len(els) : els[i].timestamp >= dayStart /\ els[i].timestamp <= dayEnd

(***************************************************************************)
(* CalibrationEngine: calibrateWeight                                      *)
(***************************************************************************)
\* profile.calibrationBaseWeight ?? profile.weight
\* mutant of baseWeight: the change is measured from the displayed weight
baseWeight_Displayed(p) == p.weight

\* profile.calibrationBaseWeight ?? profile.weight
baseWeight(p) ==
  IF IsDefined(p.calibrationBaseWeight) THEN p.calibrationBaseWeight ELSE p.weight

\* mutant of lastUpdate: an absent lastWeightUpdate is read as instant 0
lastUpdate_NoFallback(p, t) == p.lastWeightUpdate

\* profile.lastWeightUpdate || Date.now()
lastUpdate(p, t) == IF p.lastWeightUpdate # 0 THEN p.lastWeightUpdate ELSE t

\* mutant of dayGap: the gap counted in calendar days
dayGap_CalendarDays(p, t) == DayOf(t) - DayOf(lastUpdate(p, t))

gapHours(p, t) == HoursBetween(t, lastUpdate(p, t))
dayGap(p, t) == Floor(RDiv(gapHours(p, t), I(HoursPerDay)))

\* profile.calibrationFactor || 1.0
factorOrDefault(p) ==
  IF IsDefined(p.calibrationFactor) /\ p.calibrationFactor[1] # 0
  THEN p.calibrationFactor ELSE DefaultCalibrationFactor

effectiveBmr(p) == RMul(I(p.bmr), factorOrDefault(p))

\* mutant of bmrBurned: every day is charged a full day of BMR
bmrBurned_FullDays(p, current, t) == effectiveBmr(p)

\* BMR burned on the day whose first instant is current (a rational: the
\* partial days are rounded to whole kcal, a full day is effectiveBmr as is)
bmrBurned(p, current, t) ==
  LET lu == lastUpdate(p, t)
      isFirstDay == CivilDate(DayOf(current)) = CivilDate(DayOf(lu))
      isToday == CivilDate(DayOf(current)) = CivilDate(DayOf(t))
      perHour == RDiv(effectiveBmr(p), I(HoursPerDay))
  IN IF isFirstDay /\ isToday
       THEN I(Round(RMul(perHour, RMax(I(0), HoursBetween(t, lu)))))
     ELSE IF isFirstDay
       THEN I(Round(RMul(perHour, HoursBetween(EndOfDay(lu), lu))))
     ELSE IF isToday
       THEN LET dayProgress ==
                  RDiv(RAdd(I(getHours(t)), R(getMinutes(t), MinutesPerHour)),
                       I(HoursPerDay))
            IN I(Round(RMul(effectiveBmr(p), dayProgress)))
     ELSE effectiveBmr(p)

\* mutant of dayImpact: the exercise of the day is not subtracted
dayImpact_NoExercise(p, ls, els, current, t) ==
  RDiv(RSub(I(dayMealCalories(ls, StartOfDay(current), EndOfDay(current))),
            bmrBurned(p, current, t)),
       I(CALORIES_PER_KG_FAT))

\* impact of the day starting at current, in kg
dayImpact(p, ls, els, current, t) ==
  RDiv(RSub(RSub(I(dayMealCalories(ls, StartOfDay(current), EndOfDay(current))),
                 bmrBurned(p, current, t)),
            I(dayExerciseCalories(els, StartOfDay(current), EndOfDay(current)))),
       I(CALORIES_PER_KG_FAT))

RECURSIVE dayWalk_EveryDay(_, _, _, _, _)
\* mutant of dayWalk: a day without logs is counted as a day of pure deficit
dayWalk_EveryDay(p, ls, els, current, t) ==
  IF current > StartOfDay(t) THEN <<>>
  ELSE << [date |-> formatDateKey(current),
           impact |-> dayImpact(p, ls, els, current, t),
           bmrBurned |-> bmrBurned(p, current, t)] >>
       \o dayWalk_EveryDay(p, ls, els, current + TicksPerDay, t)

RECURSIVE dayWalk(_, _, _, _, _)
\* the while loop from current to today: one entry per day that has logs
dayWalk(p, ls, els, current, t) ==
  IF current > StartOfDay(t) THEN <<>>
  ELSE (IF hasLogs(ls, els, StartOfDay(current), EndOfDay(current))
        THEN << [date |-> formatDateKey(current),
                 impact |-> dayImpact(p, ls, els, current, t),
                 bmrBurned |-> bmrBurned(p, current, t)] >>
        ELSE <<>>)
       \o dayWalk(p, ls, els, current + TicksPerDay, t)

recordsInPeriod(p, ls, els, t) ==
  dayWalk(p, ls, els, StartOfDay(lastUpdate(p, t)), t)

RECURSIVE SumField(_, _)
SumField(rs, f) ==
  IF rs = <<>> THEN I(0) ELSE RAdd(Head(rs)[f], SumField(Tail(rs), f))

predictedChange(p, ls, els, t) == SumField(recordsInPeriod(p, ls, els, t), "impact")
totalBmrBurned(p, ls, els, t) == SumField(recordsInPeriod(p, ls, els, t), "bmrBurned")

\* mutant of newRatio: the ratio is not capped at 0.5
newRatio_NoCap(gap) == RMul(I(gap), RatioPerDay)

newRatio(gap) == RMin(RMul(I(gap), RatioPerDay), MaxNewRatio)

\* mutant of bmrCorrectionRatio: the error is taken with the opposite sign
bmrCorrectionRatio_WrongSign(predicted, actualChange, total) ==
  RAdd(I(1), RDiv(RMul(RSub(actualChange, predicted), I(CALORIES_PER_KG_FAT)), total))

\* line 281: 1 + (predictedChange - actualChange) * 7700 / totalBmrBurned
bmrCorrectionRatio(predicted, actualChange, total) ==
  RAdd(I(1), RDiv(RMul(RSub(predicted, actualChange), I(CALORIES_PER_KG_FAT)), total))

\* line 285: Math.abs(bmrCorrectionRatio - 1) > 0.05
isSignificant(ratio) == RLess(NoiseGate, RAbs(RSub(ratio, I(1))))

\* mutant of newCalibrationFactor: the candidate is not clamped
newCalibrationFactor_NoClamp(p, predicted, actualChange, total, gap) ==
  LET old == factorOrDefault(p)
      oldRatio == RSub(I(1), newRatio(gap))
  IN IF RSign(total) > 0
     THEN LET ratio == bmrCorrectionRatio(predicted, actualChange, total)
          IN IF isSignificant(ratio)
             THEN RAdd(RMul(oldRatio, old), RMul(newRatio(gap), RMul(old, ratio)))
             ELSE old
     ELSE old

\* mutant of newCalibrationFactor: no noise gate
newCalibrationFactor_NoGate(p, predicted, actualChange, total, gap) ==
  LET old == factorOrDefault(p)
      oldRatio == RSub(I(1), newRatio(gap))
  IN IF RSign(total) > 0
     THEN LET ratio == bmrCorrectionRatio(predicted, actualChange, total)
              clampedFactor == RMax(MinFactor, RMin(MaxFactor, RMul(old, ratio)))
          IN RAdd(RMul(oldRatio, old), RMul(newRatio(gap), clampedFactor))
     ELSE old

\* lines 279-291: the calibration factor after an ACCEPT
newCalibrationFactor(p, predicted, actualChange, total, gap) ==
  LET old == factorOrDefault(p)
      oldRatio == RSub(I(1), newRatio(gap))
  IN IF RSign(total) > 0
     THEN LET ratio == bmrCorrectionRatio(predicted, actualChange, total)
              thisMeasurementFactor == RMul(old, ratio)
              clampedFactor == RMax(MinFactor, RMin(MaxFactor, thisMeasurementFactor))
          IN IF isSignificant(ratio)
             THEN RAdd(RMul(oldRatio, old), RMul(newRatio(gap), clampedFactor))
             ELSE old
     ELSE old

NullCorrections == [isNull |-> TRUE, list |-> <<>>]

\* mutant of impactCorrections: the error is shared out over one day too many
impactCorrections_WrongShare(records, predictionError) ==
  IF Len(records) > 0 /\ RLess(CorrectionThreshold, RAbs(predictionError))
  THEN [isNull |-> FALSE,
        list |-> [i \in 1..Len(records) |->
                    [date |-> records[i].date,
                     correctionPerDay |->
                       RDiv(predictionError, I(Len(records) + 1))]]]
  ELSE NullCorrections

\* lines 294-301: the corrections of an ACCEPT
impactCorrections(records, predictionError) ==
  IF Len(records) > 0 /\ RLess(CorrectionThreshold, RAbs(predictionError))
  THEN [isNull |-> FALSE,
        list |-> [i \in 1..Len(records) |->
                    [date |-> records[i].date,
                     correctionPerDay |-> RDiv(predictionError, I(Len(records)))]]]
  ELSE NullCorrections

newBmr(p, newWeight) == calculateBmr(newWeight, p.height, p.age, p.gender)
newTdee(p, newWeight) == RMul(newBmr(p, newWeight), ActivityMultiplier(p))

\* mutant of rejectProfile: the same-day save moves the baseline
rejectProfile_MovesBaseline(p, newWeight) ==
  [p EXCEPT !.weight = newWeight,
            !.bmr = Round(newBmr(p, newWeight)),
            !.tdee = Round(newTdee(p, newWeight)),
            !.calibrationBaseWeight = newWeight]

\* lines 180-189: the profile returned when dayGap = 0
rejectProfile(p, newWeight) ==
  [p EXCEPT !.weight = newWeight,
            !.bmr = Round(newBmr(p, newWeight)),
            !.tdee = Round(newTdee(p, newWeight))]

\* mutant of acceptProfile: the baseline is left as it was
acceptProfile_KeepsBaseline(p, newWeight, factor, t) ==
  [p EXCEPT !.weight = newWeight,
            !.bmr = Round(newBmr(p, newWeight)),
            !.tdee = Round(newTdee(p, newWeight)),
            !.lastWeightUpdate = t,
            !.calibrationFactor = factor]

\* mutant of acceptProfile: lastWeightUpdate is left as it was
acceptProfile_KeepsTimestamp(p, newWeight, factor, t) ==
  [p EXCEPT !.weight = newWeight,
            !.bmr = Round(newBmr(p, newWeight)),
            !.tdee = Round(newTdee(p, newWeight)),
            !.calibrationFactor = factor,
            !.calibrationBaseWeight = newWeight]

\* lines 318-327: the profile returned after a calibration
acceptProfile(p, newWeight, factor, t) ==
  [p EXCEPT !.weight = newWeight,
            !.bmr = Round(newBmr(p, newWeight)),
            !.tdee = Round(newTdee(p, newWeight)),
            !.lastWeightUpdate = t,
            !.calibrationFactor = factor,
            !.calibrationBaseWeight = newWeight]

\* which path lines 280-291 take: "noBmr" (totalBmrBurned = 0), "noise"
\* (within the 5% gate) or "smoothed"
factorPath(predicted, actualChange, total) ==
  IF RSign(total) <= 0 THEN "noBmr"
  ELSE IF isSignificant(bmrCorrectionRatio(predicted, actualChange, total))
       THEN "smoothed" ELSE "noise"

\* mutant of argumentsAfter: the call empties the meal-log array it was given
\* and writes the factor it computed into the profile it was given
argumentsAfter_Written(p, ls, els) ==
  [profile |-> [p EXCEPT !.calibrationFactor = Undefined],
   logs |-> <<>>, exerciseLogs |-> els]

\* the objects passed to calibrateWeight as they are when it returns: the
\* code reads them (spread, filter, reduce, some) and assigns to none of them
argumentsAfter(p, ls, els) ==
  [profile |-> p, logs |-> ls, exerciseLogs |-> els]

\* the events the filters of lines 217-223 select on the days the loop
\* visits, from the day starting at current to today
eventsInPeriod(ls, els, current, t) ==
  {<<"meal", ls[i].id>> : i \in {j \in 1..Len(ls) :
       ls[j].timestamp >= current /\ ls[j].timestamp <= EndOfDay(t)}}
  \cup
  {<<"exercise", els[i].id>> : i \in {j \in 1..Len(els) :
       els[j].timestamp >= current /\ els[j].timestamp <= EndOfDay(t)}}

\* the call calibrateWeight(profile, logs, exerciseLogs, newWeight) whose
\* reads of the clock return entry at lines 161-162 (lastUpdate, gapHours)
\* and later at lines 193-324 (today, isToday, the partial-day hours and the
\* new lastWeightUpdate): its two results, and the branch it took
calibrateWeightReads(p, ls, els, newWeight, entry, later) ==
  LET actualChange == RSub(newWeight, baseWeight(p))
      gap == dayGap(p, entry)
  IN IF gap = 0
     THEN [updatedProfile |-> rejectProfile(p, newWeight),
           impactCorrections |-> NullCorrections,
           calibrated |-> FALSE, dayGap |-> gap, path |-> "none",
           actualChange |-> actualChange,
           arguments |-> argumentsAfter(p, ls, els),
           events |-> {}]
     ELSE LET records == dayWalk(p, ls, els, StartOfDay(lastUpdate(p, entry)), later)
              predicted == SumField(records, "impact")
              total == SumField(records, "bmrBurned")
              predictionError == RSub(predicted, actualChange)
          IN [updatedProfile |->
                acceptProfile(p, newWeight,
                  newCalibrationFactor(p, predicted, actualChange, total, gap), later),
              impactCorrections |-> impactCorrections(records, predictionError),
              calibrated |-> TRUE, dayGap |-> gap,
              path |-> factorPath(predicted, actualChange, total),
              actualChange |-> actualChange,
              arguments |-> argumentsAfter(p, ls, els),
              events |-> eventsInPeriod(ls, els, StartOfDay(lastUpdate(p, entry)), later)]

\* the call when the clock stands still at t while it runs
calibrateWeight(p, ls, els, newWeight, t) ==
  calibrateWeightReads(p, ls, els, newWeight, t, t)

(***************************************************************************)
(* migrateProfile                                                          *)
(***************************************************************************)
currentYear(t) == CivilDate(DayOf(t))[1]

\* mutant of migrateProfile: an absent calibrationBaseWeight is left absent
migrateProfile_NoBaseline(p, t) ==
  LET p1 == IF p.lastWeightUpdate = 0 THEN [p EXCEPT !.lastWeightUpdate = t] ELSE p
      p2 == IF p1.ageLastUpdatedYear = 0
            THEN [p1 EXCEPT !.ageLastUpdatedYear = currentYear(t)] ELSE p1
      p3 == IF ~IsDefined(p2.calibrationFactor)
            THEN [p2 EXCEPT !.calibrationFactor = DefaultCalibrationFactor] ELSE p2
      p5 == IF p3.createdAt = 0
            THEN [p3 EXCEPT !.createdAt =
                    IF p3.lastWeightUpdate # 0 THEN p3.lastWeightUpdate ELSE t]
            ELSE p3
  IN p5

migrateProfile(p, t) ==
  LET p1 == IF p.lastWeightUpdate = 0 THEN [p EXCEPT !.lastWeightUpdate = t] ELSE p
      p2 == IF p1.ageLastUpdatedYear = 0
            THEN [p1 EXCEPT !.ageLastUpdatedYear = currentYear(t)] ELSE p1
      p3 == IF ~IsDefined(p2.calibrationFactor)
            THEN [p2 EXCEPT !.calibrationFactor = DefaultCalibrationFactor] ELSE p2
      p4 == IF ~IsDefined(p3.calibrationBaseWeight)
            THEN [p3 EXCEPT !.calibrationBaseWeight = p3.weight] ELSE p3
      p5 == IF p4.createdAt = 0
            THEN [p4 EXCEPT !.createdAt =
                    IF p4.lastWeightUpdate # 0 THEN p4.lastWeightUpdate ELSE t]
            ELSE p4
      p6 == IF p5.ageLastUpdatedYear < currentYear(t)
            THEN LET age == p5.age + (currentYear(t) - p5.ageLastUpdatedYear)
                     bmr == calculateBmr(p5.weight, p5.height, age, p5.gender)
                 IN [p5 EXCEPT !.age = age,
                               !.ageLastUpdatedYear = currentYear(t),
                               !.bmr = Round(bmr),
                               !.tdee = Round(RMul(bmr, ActivityMultiplier(p5)))]
            ELSE p5
  IN p6

(***************************************************************************)
(* BackfillEngine: the impact-history effect of useAppData                 *)
(***************************************************************************)
RECURSIVE MinTimestamp(_)
MinTimestamp(ls) ==
  IF Len(ls) = 1 THEN ls[1].timestamp
  ELSE LET m == MinTimestamp(Tail(ls))
       IN IF ls[1].timestamp < m THEN ls[1].timestamp ELSE m

\* calculateDailyImpact of the effect; defined only for a day that has logs
calculateDailyImpact(p, ls, els, date) ==
  RDiv(I(dayMealCalories(ls, StartOfDay(date), EndOfDay(date)) - p.bmr
         - dayExerciseCalories(els, StartOfDay(date), EndOfDay(date))),
       I(CALORIES_PER_KG_FAT))

existingDates(hist) == {hist[i].date : i \in 1..Len(hist)}

\* the first instants of the days the loop visits: from current up to
\* (excluding) today
loopDays(current, t) ==
  [k \in 1..((StartOfDay(t) - current) \div TicksPerDay) |->
     current + (k - 1) * TicksPerDay]

\* mutant of newRecords: dates already in the history are not skipped
newRecords_NoSkip(p, ls, els, hist, current, t) ==
  LET found == SelectSeq(loopDays(current, t),
                         LAMBDA day : hasLogs(ls, els, StartOfDay(day), EndOfDay(day)))
  IN [k \in 1..Len(found) |->
        [date |-> formatDateKey(found[k]),
         impactKg |-> calculateDailyImpact(p, ls, els, found[k])]]

\* the while loop of the effect: a record for every visited day that has
\* logs and whose date is not in the history
newRecords(p, ls, els, hist, current, t) ==
  LET dates == existingDates(hist)
      found == SelectSeq(loopDays(current, t),
                         LAMBDA day : /\ formatDateKey(day) \notin dates
                                      /\ hasLogs(ls, els, StartOfDay(day), EndOfDay(day)))
  IN [k \in 1..Len(found) |->
        [date |-> formatDateKey(found[k]),
         impactKg |-> calculateDailyImpact(p, ls, els, found[k])]]

\* the place entry i takes in the sorted array: after the entries whose
\* date compares less, and after the entries of equal date that stood before
\* it (Array.prototype.sort is stable)
SortedPosition(rs, i) ==
  1 + Cardinality({j \in 1..Len(rs) :
                     \/ DateKeyLess(rs[j].date, rs[i].date)
                     \/ (rs[j].date = rs[i].date /\ j < i)})

SortByDate(rs) ==
  LET place == [i \in 1..Len(rs) |-> SortedPosition(rs, i)] \o <<>>
  IN [k \in 1..Len(rs) |-> rs[CHOOSE i \in 1..Len(rs) : place[i] = k]]

\* mutant of SliceLast: the oldest n entries are kept
SliceLast_KeepsOldest(rs, n) == IF Len(rs) <= n THEN rs ELSE SubSeq(rs, 1, n)

\* combined.slice(-365)
SliceLast(rs, n) == IF Len(rs) <= n THEN rs ELSE SubSeq(rs, Len(rs) - n + 1, Len(rs))

\* the records the effect finds missing (empty when it returns early)
backfillNewRecords(p, ls, els, hist, t) ==
  IF Len(ls) = 0 THEN <<>>
  ELSE LET earliestLogTime == MinTimestamp(ls \o els)
           createdAtDay == StartOfDay(IF p.createdAt # 0 THEN p.createdAt ELSE t)
           startTime == IF earliestLogTime > createdAtDay
                        THEN earliestLogTime ELSE createdAtDay
       IN newRecords(p, ls, els, hist, StartOfDay(startTime), t)

\* the impact history after one run of the effect
backfillEffect(p, ls, els, hist, t) ==
  LET new == backfillNewRecords(p, ls, els, hist, t)
  IN IF Len(new) > 0 THEN SliceLast(SortByDate(hist \o new), HistoryCap) ELSE hist

(***************************************************************************)
(* Inputs                                                                  *)
(***************************************************************************)
\* the user's body metrics at onboarding, and the weights a scale may show
Genders == {"male"}
Ages == {30}
Heights == {176}
Weights == {I(80), R(805, 10)}
\* kcal of a logged meal and of a logged exercise
MealCalories == {1685}
ExerciseCalories == {100}
\* kcal of a meal after its items were edited
EditedCalories == {1285, 1685}

(***************************************************************************)
(* The hook's state and handlers                                           *)
(***************************************************************************)
\* History variables.
\* last: the operation that led to the current state; for a weigh-in the
\*   weight submitted and what calibrateWeight did with it; effect is the
\*   number of records the backfill effect added (-1: it did not run);
\*   shown is the weight the profile displayed when the weigh-in was made.
\* windowBase: the weight recorded when lastWeightUpdate was last set, that
\*   is the baseline of the measurement window that is now open.
NoCall == [op |-> "other", newWeight |-> Undefined, calibrated |-> FALSE,
           dayGap |-> 0, path |-> "none", actualChange |-> I(0),
           impactCorrections |-> NullCorrections, effect |-> -1,
           shown |-> Undefined]

\* Onboarding.handleNext: the profile handed to handleProfileCreate
onboardingProfile(gender, age, height, weight, t) ==
  LET bmr == calculateBmr(weight, height, age, gender)
  IN [gender |-> gender, age |-> age,
      height |-> height, weight |-> weight,
      bmr |-> Round(bmr), tdee |-> Round(RMul(bmr, SedentaryMultiplier)),
      lastWeightUpdate |-> t, ageLastUpdatedYear |-> currentYear(t),
      calibrationFactor |-> DefaultCalibrationFactor,
      calibrationBaseWeight |-> Undefined, createdAt |-> 0]

\* handleProfileCreate stores the new profile and sets currentUserId, upon
\* which the load effect (lines 113-164) reads the stored profile back
\* through migrateProfile: a migrated fresh profile, no logs, no history
Init ==
  /\ now = StartTick
  /\ \E g \in Genders, a \in Ages, h \in Heights, w \in Weights :
       /\ profile = migrateProfile(onboardingProfile(g, a, h, w, StartTick), StartTick)
       /\ windowBase = w
  /\ logs = <<>>
  /\ exerciseLogs = <<>>
  /\ impactHistory = <<>>
  /\ last = [NoCall EXCEPT !.op = "handleProfileCreate"]
  /\ logChanges = 0
  /\ counted = {}
  /\ WaterIdle
  /\ RetryIdle

\* the wall clock advances between two operations
Tick ==
  /\ \E h \in ClockSteps :
       /\ now + h * TicksPerHour <= MaxTick
       /\ now' = now + h * TicksPerHour
  /\ last' = NoCall
  /\ UNCHANGED <<profile, logs, exerciseLogs, impactHistory, windowBase, logChanges, counted, waterVars, retryVars>>

\* what a handler leaves in last when the effect then grows the history
\* from hist to hist2
Ran(op, hist, hist2) ==
  [NoCall EXCEPT !.op = op, !.effect = Len(hist2) - Len(hist)]

\* the user's profile is loaded again from localStorage (the app is reopened)
LoadUserData ==
  /\ profile' = migrateProfile(profile, now)
  /\ impactHistory' = backfillEffect(profile', logs, exerciseLogs, impactHistory, now)
  /\ last' = Ran("other", impactHistory, impactHistory')
  /\ UNCHANGED <<now, logs, exerciseLogs, windowBase, logChanges, counted, waterVars, retryVars>>

\* a fresh log id (the code's Date.now().toString())
NextId(ls) ==
  IF ls = <<>> THEN 1
  ELSE 1 + (CHOOSE m \in {ls[i].id : i \in 1..Len(ls)} :
              \A i \in 1..Len(ls) : ls[i].id <= m)

handleLogMeal ==
  /\ Len(logs) < MaxLogs
  /\ \E kcal \in MealCalories :
       logs' = Append(logs, [id |-> NextId(logs), timestamp |-> now,
                             totalCalories |-> kcal])
  /\ impactHistory' = backfillEffect(profile, logs', exerciseLogs, impactHistory, now)
  /\ last' = Ran("other", impactHistory, impactHistory')
  /\ UNCHANGED <<now, profile, exerciseLogs, windowBase, logChanges, counted, waterVars, retryVars>>

handleLogExercise ==
  /\ Len(exerciseLogs) < MaxExerciseLogs
  /\ \E kcal \in ExerciseCalories :
       exerciseLogs' = Append(exerciseLogs,
                              [id |-> NextId(exerciseLogs), timestamp |-> now,
                               caloriesBurned |-> kcal])
  /\ impactHistory' = backfillEffect(profile, logs, exerciseLogs', impactHistory, now)
  /\ last' = Ran("other", impactHistory, impactHistory')
  /\ UNCHANGED <<now, profile, logs, windowBase, logChanges, counted, waterVars, retryVars>>

\* setLogs(prev => prev.map(...)): the log logId with its calories replaced
updatedLogs(ls, logId, kcal) ==
  [i \in 1..Len(ls) |->
     IF ls[i].id = logId THEN [ls[i] EXCEPT !.totalCalories = kcal] ELSE ls[i]]

\* lines 299-328 of useAppData: the stored record of the edited meal's day
\* is recomputed from the logs when that day is not today
recalculatedHistory(p, ls, els, hist, logId, t) ==
  LET hits == {i \in 1..Len(ls) : ls[i].id = logId}
  IN IF hits = {} THEN hist
     ELSE LET editedLog == ls[CHOOSE i \in hits : \A j \in hits : i <= j]
              logDate == editedLog.timestamp
              isToday == CivilDate(DayOf(logDate)) = CivilDate(DayOf(t))
              newImpact == calculateDailyImpact(p, ls, els, logDate)
          IN IF isToday THEN hist
             ELSE [i \in 1..Len(hist) |->
                     IF hist[i].date = formatDateKey(logDate)
                     THEN [hist[i] EXCEPT !.impactKg = newImpact]
                     ELSE hist[i]]

handleEditMealLog ==
  \E i \in 1..Len(logs), kcal \in EditedCalories :
    LET recalculated ==
          recalculatedHistory(profile, updatedLogs(logs, logs[i].id, kcal),
                              exerciseLogs, impactHistory, logs[i].id, now)
    IN /\ logs' = updatedLogs(logs, logs[i].id, kcal)
       /\ impactHistory' =
            backfillEffect(profile, logs', exerciseLogs, recalculated, now)
       /\ last' = Ran("handleEditMealLog", recalculated, impactHistory')
       /\ logChanges < MaxLogChanges
       /\ logChanges' = logChanges + 1
       /\ UNCHANGED <<now, profile, exerciseLogs, windowBase, counted, waterVars, retryVars>>

\* prev.filter(log => log.id !== logId)
withoutLog(ls, logId) == SelectSeq(ls, LAMBDA l : l.id # logId)

handleDeleteLog ==
  \E i \in 1..Len(logs) :
    /\ logChanges < MaxLogChanges
    /\ logChanges' = logChanges + 1
    /\ logs' = withoutLog(logs, logs[i].id)
    /\ impactHistory' = backfillEffect(profile, logs', exerciseLogs, impactHistory, now)
    /\ last' = Ran("handleDeleteLog", impactHistory, impactHistory')
    /\ UNCHANGED <<now, profile, exerciseLogs, windowBase, counted, waterVars, retryVars>>

handleDeleteExerciseLog ==
  \E i \in 1..Len(exerciseLogs) :
    /\ logChanges < MaxLogChanges
    /\ logChanges' = logChanges + 1
    /\ exerciseLogs' = withoutLog(exerciseLogs, exerciseLogs[i].id)
    /\ impactHistory' = backfillEffect(profile, logs, exerciseLogs', impactHistory, now)
    /\ last' = Ran("handleDeleteExerciseLog", impactHistory, impactHistory')
    /\ UNCHANGED <<now, profile, logs, windowBase, counted, waterVars, retryVars>>

\* the first correction whose date is date
FindCorrection(list, date) ==
  LET hits == {i \in 1..Len(list) : list[i].date = date}
  IN IF hits = {} THEN 0 ELSE CHOOSE i \in hits : \A j \in hits : i <= j

\* mutant of applyCorrections: every stored record is corrected, whatever
\* its date
applyCorrections_AllRecords(hist, corr) ==
  IF corr.isNull THEN hist
  ELSE [i \in 1..Len(hist) |->
          [hist[i] EXCEPT !.impactKg =
             RSub(hist[i].impactKg, corr.list[1].correctionPerDay)]]

\* lines 371-381 of useAppData: storedImpact[date] -= correctionPerDay
applyCorrections(hist, corr) ==
  IF corr.isNull THEN hist
  ELSE [i \in 1..Len(hist) |->
          LET c == FindCorrection(corr.list, hist[i].date)
          IN IF c # 0
             THEN [hist[i] EXCEPT !.impactKg =
                     RSub(hist[i].impactKg, corr.list[c].correctionPerDay)]
             ELSE hist[i]]

\* lines 365-384 of useAppData for the weight newWeight, with the clock at
\* now when the call begins and at later when it ends; the arrays held in
\* logs and exerciseLogs are the ones the call was given
UpdateWeight(newWeight, later) ==
  \E res \in {calibrateWeightReads(profile, logs, exerciseLogs, newWeight, now, later)} :
  \E corrected \in {applyCorrections(impactHistory, res.impactCorrections)} :
     /\ profile' = res.updatedProfile
     /\ now' = later
     /\ impactHistory' =
          backfillEffect(res.updatedProfile, res.arguments.logs,
                         res.arguments.exerciseLogs, corrected, later)
     /\ last' = [op |-> "handleUpdateWeight", newWeight |-> newWeight,
                 shown |-> profile.weight,
                 calibrated |-> res.calibrated, dayGap |-> res.dayGap,
                 path |-> res.path, actualChange |-> res.actualChange,
                 impactCorrections |-> res.impactCorrections,
                 effect |-> Len(impactHistory') - Len(impactHistory)]
     /\ windowBase' = IF res.calibrated THEN newWeight ELSE windowBase
     /\ logs' = res.arguments.logs
     /\ exerciseLogs' = res.arguments.exerciseLogs
     /\ counted' = IF res.calibrated THEN counted \cup res.events ELSE counted
     /\ UNCHANGED <<logChanges, waterVars, retryVars>>

\* a weigh-in submitted through WeightInput (val > 0), handled within one
\* instant of the clock
handleUpdateWeight ==
  \E newWeight \in Weights :
    /\ RSign(newWeight) > 0
    /\ UpdateWeight(newWeight, now)

\* Math.abs(weightInKg - profile.weight) > 0.01
weightChanged(p, weightInKg) == RLess(EditThreshold, RAbs(RSub(weightInKg, p.weight)))

\* ProfileEditor.handleSave: the updates handed to handleEditProfile, merged
\* into the profile (unit kg; gender, age and height as the editor showed them)
editorUpdates(p, weightInKg, t) ==
  LET bmr == calculateBmr(weightInKg, p.height, p.age, p.gender)
      base == [p EXCEPT !.weight = weightInKg,
                        !.bmr = Round(bmr),
                        !.tdee = Round(RMul(bmr, ActivityMultiplier(p))),
                        !.ageLastUpdatedYear = currentYear(t)]
  IN IF weightChanged(p, weightInKg)
     THEN [base EXCEPT !.lastWeightUpdate = t,
                       !.calibrationBaseWeight = weightInKg]
     ELSE base

handleEditProfile ==
  \E weightInKg \in Weights :
    /\ profile' = editorUpdates(profile, weightInKg, now)
    /\ impactHistory' =
         backfillEffect(profile', logs, exerciseLogs, impactHistory, now)
    /\ last' = Ran("handleEditProfile", impactHistory, impactHistory')
    /\ windowBase' = IF weightChanged(profile, weightInKg)
                     THEN weightInKg ELSE windowBase
    /\ UNCHANGED <<now, logs, exerciseLogs, logChanges, counted, waterVars, retryVars>>

Next ==
  \/ Tick
  \/ LoadUserData
  \/ handleLogMeal
  \/ handleLogExercise
  \/ handleUpdateWeight
  \/ handleEditProfile

Spec == Init /\ [][Next]_vars

\* the operations on logs and history: logging, editing and deleting, the
\* backfill that follows each of them, reloading, and weigh-ins
NextLogs ==
  \/ Tick
  \/ LoadUserData
  \/ handleLogMeal
  \/ handleLogExercise
  \/ handleEditMealLog
  \/ handleDeleteLog
  \/ handleDeleteExerciseLog
  \/ handleUpdateWeight

LogSpec == Init /\ [][NextLogs]_vars

(***************************************************************************)
(* Properties                                                              *)
(***************************************************************************)
\* the step is a weigh-in handled by handleUpdateWeight
WeighInStep == last'.op = "handleUpdateWeight"
\* ticks since (the fallback of) lastWeightUpdate, before the step
Elapsed == now - lastUpdate(profile, now)

C2_RejectStability ==
  [][(WeighInStep /\ dayGap(profile, now) = 0) =>
       LET w == last'.newWeight
           bmr == RSub(RAdd(RMul(I(10), w), R(625 * profile.height, 100)),
                       I(5 * profile.age))
           mifflin == IF profile.gender = "male"
                      THEN RAdd(bmr, I(5)) ELSE RSub(bmr, I(161))
       IN /\ profile'.weight = w
          /\ profile'.bmr = Round(mifflin)
          /\ profile'.tdee = Round(RMul(mifflin, SedentaryMultiplier))
          /\ profile'.calibrationBaseWeight = profile.calibrationBaseWeight
          /\ profile'.lastWeightUpdate = profile.lastWeightUpdate
          /\ profile'.calibrationFactor = profile.calibrationFactor
          /\ last'.impactCorrections.isNull]_vars

\* a REJECT has left the display weight away from the baseline
C2_Witness ==
  /\ last.op = "handleUpdateWeight"
  /\ ~last.calibrated
  /\ IsDefined(profile.calibrationBaseWeight)
  /\ profile.weight # profile.calibrationBaseWeight

\* C3 (calibrationBaseWeight changes only when a calibration executes): a
\* step that changes a calibrationBaseWeight that was set is a weigh-in that
\* took the ACCEPT branch (dayGap >= 1); no other operation changes it.
\* (The first filling of an absent field by migrateProfile is not counted.)
C3_BaselineOnlyByCalibration ==
  [][(/\ IsDefined(profile.calibrationBaseWeight)
      /\ profile'.calibrationBaseWeight # profile.calibrationBaseWeight)
       => (WeighInStep /\ dayGap(profile, now) >= 1)]_vars

\* C4 (baseline across REJECTs): a weigh-in submitted at least 24h after
\* lastWeightUpdate takes the ACCEPT branch, and its actualChange is newWeight
\* minus the baseline recorded when lastWeightUpdate was set, whatever
\* REJECT weigh-ins were submitted in between.
C4_BaselineAcrossRejects ==
  [][(WeighInStep /\ Elapsed >= TicksPerDay) =>
       /\ last'.calibrated
       /\ last'.actualChange = RSub(last'.newWeight, windowBase)]_vars

\* an ACCEPT was made while the displayed weight, moved by a REJECT, was
\* not the baseline
C4_Witness ==
  /\ last.op = "handleUpdateWeight" /\ last.calibrated
  /\ last.shown # RSub(last.newWeight, last.actualChange)

\* the correction the call gives record i (none when it returns null)
CorrectionOf(corr, i) ==
  IF corr.isNull THEN I(0) ELSE corr.list[i].correctionPerDay

RECURSIVE CorrectedSumFrom(_, _, _)
CorrectedSumFrom(records, corr, i) ==
  IF i > Len(records) THEN I(0)
  ELSE RAdd(RSub(records[i].impact, CorrectionOf(corr, i)),
            CorrectedSumFrom(records, corr, i + 1))

\* sum over recordsInPeriod of impact[d] - correctionPerDay
CorrectedSum(records, corr) == CorrectedSumFrom(records, corr, 1)

\* |x| <= 1e-9
WithinEpsilon(x) == x[1] = 0 \/ x[2] \div Abs(x[1]) >= 1000000000

\* C5 as stated (history-correction exactness): for every weigh-in that takes
\* the ACCEPT branch, the sum over recordsInPeriod of
\* impact[d] - correctionPerDay equals actualChange within 1e-9.
C5_ExactnessEveryAccept ==
  [][(WeighInStep /\ dayGap(profile, now) >= 1) =>
       WithinEpsilon(RSub(
         CorrectedSum(recordsInPeriod(profile, logs, exerciseLogs, now),
                      last'.impactCorrections),
         last'.actualChange))]_vars

\* C5 as amended: an ACCEPT returns corrections exactly when recordsInPeriod
\* is non-empty and |predictionError| > 0.001; when it does, the sum over
\* recordsInPeriod of impact[d] - correctionPerDay equals actualChange; when
\* it does not and recordsInPeriod is non-empty, the sum of the impacts is
\* within 0.001 kg of actualChange.
C5_ExactnessWhenCorrected ==
  [][(WeighInStep /\ dayGap(profile, now) >= 1) =>
       LET records == recordsInPeriod(profile, logs, exerciseLogs, now)
           corr == last'.impactCorrections
           diff == RSub(CorrectedSum(records, corr), last'.actualChange)
           error == RSub(predictedChange(profile, logs, exerciseLogs, now),
                         last'.actualChange)
       IN /\ corr.isNull <=>
               (records = <<>> \/ RLeq(RAbs(error), CorrectionThreshold))
          /\ ~corr.isNull => (diff = I(0) /\ Len(corr.list) = Len(records))
          /\ (corr.isNull /\ records # <<>>) =>
               RLeq(RAbs(diff), CorrectionThreshold)]_vars

\* an ACCEPT has returned corrections for two logged days
C5_Witness ==
  /\ last.op = "handleUpdateWeight"
  /\ last.calibrated
  /\ ~last.impactCorrections.isNull
  /\ Len(last.impactCorrections.list) >= 2

\* the date keys of the days from the day of lastWeightUpdate through today
PeriodDates(p, t) ==
  {CivilDate(d) : d \in DayOf(lastUpdate(p, t))..DayOf(t)}

RECURSIVE StoredSum(_, _)
\* sum of the stored impactKg of the records dated in dates
StoredSum(hist, dates) ==
  IF hist = <<>> THEN I(0)
  ELSE RAdd(IF Head(hist).date \in dates THEN Head(hist).impactKg ELSE I(0),
            StoredSum(Tail(hist), dates))

\* C6 (stored history matches ground truth after correction): after
\* handleUpdateWeight has applied the corrections of an ACCEPT to the impact
\* history, the stored impactKg of the dates of the calibration period sum
\* to actualChange.
C6_StoredHistoryMatches ==
  [][(WeighInStep /\ last'.calibrated /\ ~last'.impactCorrections.isNull) =>
       WithinEpsilon(RSub(StoredSum(impactHistory', PeriodDates(profile, now)),
                          last'.actualChange))]_vars

\* C7 (noise gate): an ACCEPT with totalBmrBurned > 0 whose correction ratio
\* r = 1 + predictionError * 7700 / totalBmrBurned has |r - 1| <= 0.05 leaves
\* calibrationFactor as it was and still sets weight to newWeight.
C7_NoiseGate ==
  [][(WeighInStep /\ dayGap(profile, now) >= 1) =>
       LET total == totalBmrBurned(profile, logs, exerciseLogs, now)
           error == RSub(predictedChange(profile, logs, exerciseLogs, now),
                         RSub(last'.newWeight, baseWeight(profile)))
       IN (/\ RSign(total) > 0
           /\ RLeq(RAbs(RDiv(RMul(error, I(CALORIES_PER_KG_FAT)), total)),
                   NoiseGate))
          => /\ profile'.calibrationFactor = profile.calibrationFactor
             /\ profile'.weight = last'.newWeight]_vars

\* an ACCEPT has gone through the noise gate
C7_Witness ==
  /\ last.op = "handleUpdateWeight"
  /\ last.calibrated
  /\ last.path = "noise"
  /\ profile.weight = last.newWeight

\* C8 (ACCEPT profile update): every weigh-in that takes the ACCEPT branch
\* returns weight = newWeight, calibrationBaseWeight = newWeight and
\* lastWeightUpdate = now, so that a weigh-in less than 24h later is a REJECT.
C8_AcceptProfile ==
  [][(WeighInStep /\ dayGap(profile, now) >= 1) =>
       /\ profile'.weight = last'.newWeight
       /\ profile'.calibrationBaseWeight = last'.newWeight
       /\ profile'.lastWeightUpdate = now
       /\ \A t \in now..(now + TicksPerDay - 1) : dayGap(profile', t) = 0]_vars

\* an ACCEPT whose period has no logged day
C8_Witness ==
  /\ last.op = "handleUpdateWeight"
  /\ last.calibrated
  /\ last.path = "noBmr"
  /\ profile.lastWeightUpdate = now

NoDuplicateDates(hist) ==
  \A i, j \in 1..Len(hist) : i # j => hist[i].date # hist[j].date

\* C10 (backfill idempotence): once the backfill effect has run, a second
\* run with the same profile and logs finds no record to add; no run leaves
\* two records with one date, and every record that was in the history is
\* still there as it was (after the corrections of the weigh-in, if any).
C10_BackfillIdempotent ==
  [][(now' = now) =>
       LET kept == applyCorrections(impactHistory, last'.impactCorrections)
       IN /\ backfillNewRecords(profile', logs', exerciseLogs', impactHistory',
                                now') = <<>>
          /\ backfillEffect(profile', logs', exerciseLogs', impactHistory',
                            now') = impactHistory'
          /\ NoDuplicateDates(impactHistory')
          /\ \A i \in 1..Len(kept) :
               \E j \in 1..Len(impactHistory') : impactHistory'[j] = kept[i]]_vars

\* the effect has run on a history that has records and added none
C10_Witness ==
  /\ last.effect = 0
  /\ Len(impactHistory) >= 1

\* the step ran the backfill effect (a handler changed profile or logs)
EffectRan == last'.effect # -1

\* the local day on which handleProfileCreate created the profile
CreationDay == DayOf(StartTick)

\* the local days of the events of ls and els
EventDays(ls, els) ==
  {DayOf(ls[i].timestamp) : i \in 1..Len(ls)}
    \cup {DayOf(els[i].timestamp) : i \in 1..Len(els)}

\* number of stored records dated date
RecordsDated(hist, date) == Cardinality({i \in 1..Len(hist) : hist[i].date = date})

\* C11 (backfill coverage): after the backfill has run and its result is
\* merged, every calendar day from the later of the day of the earliest
\* meal-or-exercise event and the day of profile creation through yesterday
\* that has a meal log or an exercise log has exactly one record in the
\* impact history, and no record is dated today.
C11_BackfillCoverage ==
  [][EffectRan =>
       LET days == EventDays(logs', exerciseLogs')
       IN /\ \A d \in days :
               (/\ d >= CreationDay
                /\ d < DayOf(now'))
               => RecordsDated(impactHistory', CivilDate(d)) = 1
          /\ RecordsDated(impactHistory', formatDateKey(now')) = 0]_vars

\* the impact of local day d computed with the full-past-day policy and the
\* effective BMR of p: (kcalIn - bmr * calibrationFactor - kcalOut) / 7700
FullDayImpact(p, ls, els, d) ==
  RDiv(RSub(RSub(I(dayMealCalories(ls, d * TicksPerDay, (d + 1) * TicksPerDay - 1)),
                 effectiveBmr(p)),
            I(dayExerciseCalories(els, d * TicksPerDay, (d + 1) * TicksPerDay - 1))),
       I(CALORIES_PER_KG_FAT))

\* C12 (backfill uses the effective BMR): every record the backfill appends
\* for a date d has impactKg = (kcalIn(d) - bmr * calibrationFactor -
\* kcalOut(d)) / 7700, computed from the profile and logs the effect ran with,
\* whatever the calibrationFactor is.
C12_BackfillUsesEffectiveBmr ==
  [][EffectRan =>
       \A i \in 1..Len(impactHistory') :
         impactHistory'[i].date \notin existingDates(impactHistory) =>
           \E d \in 0..DayOf(now') :
             /\ CivilDate(d) = impactHistory'[i].date
             /\ impactHistory'[i].impactKg =
                  FullDayImpact(profile', logs', exerciseLogs', d)]_vars

RECURSIVE ObservedSum(_, _, _, _, _, _)
\* sum, over the local days from d through today that have an event, of the
\* day's impact (f = "impact") or of the BMR burned on it (f = "bmrBurned")
ObservedSum(p, ls, els, d, t, f) ==
  IF d > DayOf(t) THEN I(0)
  ELSE RAdd(IF d \in EventDays(ls, els)
            THEN (IF f = "impact"
                  THEN dayImpact(p, ls, els, d * TicksPerDay, t)
                  ELSE bmrBurned(p, d * TicksPerDay, t))
            ELSE I(0),
            ObservedSum(p, ls, els, d + 1, t, f))

\* the date keys of the entries of a list of records or corrections
DatesOf(list) == {list[i].date : i \in 1..Len(list)}

\* C13 (unobserved-day neutrality): in an ACCEPT, predictedChange and
\* totalBmrBurned are the sums over the days that have a meal or exercise
\* log only (a day without logs adds 0), recordsInPeriod and the corrections
\* hold no date of a day without logs; and the backfill appends no record
\* for a day without logs.
C13_UnobservedDayNeutral ==
  [][/\ (WeighInStep /\ dayGap(profile, now) >= 1) =>
          LET first == DayOf(lastUpdate(profile, now))
              observed == {CivilDate(d) : d \in
                             EventDays(logs, exerciseLogs) \cap (first..DayOf(now))}
          IN /\ predictedChange(profile, logs, exerciseLogs, now) =
                  ObservedSum(profile, logs, exerciseLogs, first, now, "impact")
             /\ totalBmrBurned(profile, logs, exerciseLogs, now) =
                  ObservedSum(profile, logs, exerciseLogs, first, now, "bmrBurned")
             /\ DatesOf(recordsInPeriod(profile, logs, exerciseLogs, now)) = observed
             /\ DatesOf(last'.impactCorrections.list) \subseteq observed
     /\ EffectRan =>
          \A i \in 1..Len(impactHistory') :
            impactHistory'[i].date \notin existingDates(impactHistory) =>
              impactHistory'[i].date \in
                {CivilDate(d) : d \in EventDays(logs', exerciseLogs')}]_vars

\* an ACCEPT over three days has returned a correction for its one logged day
C13_Witness ==
  /\ last.op = "handleUpdateWeight"
  /\ last.calibrated
  /\ last.dayGap = 2
  /\ Len(last.impactCorrections.list) = 1

\* the step applies a correction of a weigh-in to the record dated date
CorrectsDate(date) ==
  /\ WeighInStep
  /\ date \in DatesOf(last'.impactCorrections.list)

\* the step edits a meal that was logged on the past day dated date
EditsMealOf(date) ==
  /\ last'.op = "handleEditMealLog"
  /\ date # formatDateKey(now)
  /\ \E k \in 1..Len(logs) :
       /\ formatDateKey(logs[k].timestamp) = date
       /\ \A m \in 1..Len(logs) : m # k => logs'[m] = logs[m]

\* C14 as stated (records are immutable except through calibration): over
\* logging, editing and deleting meals, logging and deleting exercise,
\* backfill and weigh-ins, the impactKg of a stored record changes only when
\* handleUpdateWeight applies a correction of calibrateWeight to its date.
C14_RecordsChangeOnlyByCalibration ==
  [][\A i \in 1..Len(impactHistory), j \in 1..Len(impactHistory') :
       (/\ impactHistory'[j].date = impactHistory[i].date
        /\ impactHistory'[j].impactKg # impactHistory[i].impactKg)
       => CorrectsDate(impactHistory[i].date)]_vars

\* C14 as amended: the impactKg of a stored record changes only when
\* handleUpdateWeight applies a correction to its date (the record then
\* loses exactly correctionPerDay) or when handleEditMealLog edits a meal of
\* that past day (the record is then recomputed from the day's logs);
\* logging, deleting and backfill change no stored record.
C14_RecordsChangeByCalibrationOrEdit ==
  [][\A i \in 1..Len(impactHistory), j \in 1..Len(impactHistory') :
       (/\ impactHistory'[j].date = impactHistory[i].date
        /\ impactHistory'[j].impactKg # impactHistory[i].impactKg)
       => \/ /\ CorrectsDate(impactHistory[i].date)
             /\ \E c \in 1..Len(last'.impactCorrections.list) :
                  /\ last'.impactCorrections.list[c].date = impactHistory[i].date
                  /\ impactHistory'[j].impactKg =
                       RSub(impactHistory[i].impactKg,
                            last'.impactCorrections.list[c].correctionPerDay)
          \/ EditsMealOf(impactHistory[i].date)]_vars

\* a meal of a past day that has a stored record has just been edited
C14_Witness ==
  /\ last.op = "handleEditMealLog"
  /\ \E i \in 1..Len(impactHistory), k \in 1..Len(logs) :
       /\ impactHistory[i].date = formatDateKey(logs[k].timestamp)
       /\ DayOf(logs[k].timestamp) < DayOf(now)
       /\ logs[k].totalCalories \notin MealCalories

\* C15 (corrections target already-recorded history): every date in the
\* correction list of an ACCEPT has a record in the impact history at the
\* moment handleUpdateWeight applies the list, so no correction is dropped.
C15_CorrectionsHaveRecords ==
  [][(WeighInStep /\ ~last'.impactCorrections.isNull) =>
       DatesOf(last'.impactCorrections.list) \subseteq existingDates(impactHistory)]_vars

(***************************************************************************)
(* The calibration call on its own: handleUpdateWeight invoked with any    *)
(* number, while the clock may advance during the call                     *)
(***************************************************************************)
\* hours after profile creation at which a weigh-in is submitted: within the
\* first 24 h, in the last hour before 48 h (and before midnight), after 48 h
CallHours == {20, 47, 60}
\* hours after profile creation at which a meal or an exercise was logged
LogHours == {20, 40}
\* numbers that are no weight
InvalidWeights == {I(0), I(-1)}
\* ticks by which the clock may advance while one call runs
MaxAdvance == 1

\* the instants at which a behaviour begins
CallInstants == {StartTick + h * TicksPerHour : h \in CallHours}

\* a profile fresh from onboarding (not reloaded, so nothing was backfilled)
\* or one stored without lastWeightUpdate, some logs, and the instant of the
\* weigh-in
EngineInit ==
  /\ now \in CallInstants
  /\ \E g \in Genders, a \in Ages, h \in Heights, w \in Weights,
        stored \in {StartTick, 0} :
       /\ profile = [onboardingProfile(g, a, h, w, StartTick)
                       EXCEPT !.lastWeightUpdate = stored]
       /\ windowBase = w
  /\ logs \in {<<>>} \cup
       {<< [id |-> 1, timestamp |-> StartTick + h * TicksPerHour,
            totalCalories |-> kcal] >> :
          h \in {x \in LogHours : StartTick + x * TicksPerHour <= now},
          kcal \in MealCalories}
  /\ exerciseLogs \in {<<>>} \cup
       {<< [id |-> 1, timestamp |-> StartTick + h * TicksPerHour,
            caloriesBurned |-> kcal] >> :
          h \in {x \in LogHours : StartTick + x * TicksPerHour <= now},
          kcal \in ExerciseCalories}
  /\ impactHistory = <<>>
  /\ last = NoCall
  /\ logChanges = 0
  /\ counted = {}
  /\ WaterIdle
  /\ RetryIdle

\* handleUpdateWeight called with any number (no WeightInput in front of
\* it); the clock is read at now when the call begins and may have advanced
\* when the later reads are made (in the first calls of a behaviour only,
\* which keeps the instants explored finite)
calibrateWeightCall ==
  \E newWeight \in Weights \cup InvalidWeights, advance \in 0..MaxAdvance :
    /\ now + advance <= MaxTick
    /\ advance > 0 => now \in CallInstants
    /\ UpdateWeight(newWeight, now + advance)

EngineNext == calibrateWeightCall

EngineSpec == EngineInit /\ [][EngineNext]_vars

\* C16 (validation before mutation): a weigh-in with newWeight <= 0 is
\* rejected before any state is changed: the profile and the impact history
\* stay as they were.
C16_ValidationBeforeMutation ==
  [][(WeighInStep /\ RSign(last'.newWeight) <= 0) =>
       (profile' = profile /\ impactHistory' = impactHistory)]_vars

\* C17 (single time read): a call of calibrateWeight with a valid weight gives
\* the result it would give with the clock frozen at one instant, even if the wall clock
\* advances while it runs: the profile and the corrections it returns are
\* those of a call made with every read of the clock at one instant between
\* its begin and its end.
C17_SingleTimeRead ==
  [][(WeighInStep /\ RSign(last'.newWeight) > 0) =>
       \E t \in now..now' :
         LET frozen == calibrateWeight(profile, logs, exerciseLogs,
                                       last'.newWeight, t)
         IN /\ profile' = frozen.updatedProfile
            /\ last'.impactCorrections = frozen.impactCorrections]_vars

\* C18 (serialized weigh-ins): a weigh-in handled right after another one is
\* computed against the profile the first one produced: after an ACCEPT its
\* baseline is the first one's weight and its window began at the first
\* one's instant, so it is a REJECT without corrections; and every weigh-in
\* that returns corrections closes its measurement window, so the corrections
\* of one window are applied to the history at most once.
C18_SerializedWeighIns ==
  [][WeighInStep =>
       /\ (last.op = "handleUpdateWeight" /\ last.calibrated) =>
            /\ profile.calibrationBaseWeight = last.newWeight
            /\ profile.lastWeightUpdate = now
            /\ last'.actualChange = RSub(last'.newWeight, last.newWeight)
            /\ ~last'.calibrated
            /\ last'.impactCorrections.isNull
            /\ impactHistory' = impactHistory
       /\ ~last'.impactCorrections.isNull =>
            /\ profile'.lastWeightUpdate > profile.lastWeightUpdate
            /\ dayGap(profile', now') = 0]_vars

\* a second weigh-in has been handled at the instant of an ACCEPT that
\* changed the factor, and was a REJECT
C18_Witness ==
  /\ last.op = "handleUpdateWeight"
  /\ ~last.calibrated
  /\ now > StartTick
  /\ profile.lastWeightUpdate = now
  /\ profile.calibrationFactor # DefaultCalibrationFactor
  /\ profile.weight # profile.calibrationBaseWeight

\* largest day gap for which the smoothing ratio is examined
MaxGap == 7

C20_DirectionOfLearning ==
  [][(WeighInStep /\ last'.path = "smoothed") =>
       LET old == factorOrDefault(profile)
           predictionError ==
             RSub(predictedChange(profile, logs, exerciseLogs, now),
                  RSub(last'.newWeight, baseWeight(profile)))
       IN /\ RSign(totalBmrBurned(profile, logs, exerciseLogs, now)) > 0
          /\ RSign(predictionError) > 0 => RLeq(old, profile'.calibrationFactor)
          /\ RSign(predictionError) < 0 => RLeq(profile'.calibrationFactor, old)]_vars

\* an ACCEPT whose prediction was too low has lowered the factor
C20_Witness ==
  /\ last.op = "handleUpdateWeight"
  /\ last.path = "smoothed"
  /\ RLess(profile.calibrationFactor, DefaultCalibrationFactor)

(***************************************************************************)
(* The impact history at its retention cap: a profile that is a year old,  *)
(* with a stored record for (nearly) every day of that year                *)
(***************************************************************************)
\* days the clock may advance beyond the first day after the stored year
MaxCapDays == 2

\* the weight last recorded when a behaviour begins
StoredWeights == {I(80)}

\* numbers of records held when a behaviour begins: one below the cap, and
\* the cap
StoredLengths == {HistoryCap - 1, HistoryCap}

\* the history of n logged days, days 1 to n, as the backfill stored it
storedHistory(p, n) ==
  [i \in 1..n |->
     [date |-> CivilDate(i),
      impactKg |-> RDiv(I((CHOOSE kcal \in MealCalories : TRUE) - p.bmr),
                        I(CALORIES_PER_KG_FAT))]]

\* the profile a year after onboarding: reloaded on its first day, and last
\* weighed (ACCEPT, same weight) on the morning of the day the behaviour
\* begins
yearOldProfile(g, a, h, w) ==
  [migrateProfile(onboardingProfile(g, a, h, w, StartTick), StartTick)
     EXCEPT !.lastWeightUpdate = (HistoryCap + 1) * TicksPerDay + 8 * TicksPerHour,
            !.calibrationBaseWeight = w]

\* the logs of the year were deleted since (deleting leaves the records)
CapInit ==
  /\ now = (HistoryCap + 1) * TicksPerDay + 20 * TicksPerHour
  /\ \E g \in Genders, a \in Ages, h \in Heights, w \in StoredWeights :
       /\ profile = yearOldProfile(g, a, h, w)
       /\ windowBase = w
  /\ \E n \in StoredLengths : impactHistory = storedHistory(profile, n)
  /\ logs = <<>>
  /\ exerciseLogs = <<>>
  /\ last = NoCall
  /\ logChanges = 0
  /\ counted = {}
  /\ WaterIdle
  /\ RetryIdle

\* the next day, at the same hour
CapTick ==
  /\ DayOf(now) < HistoryCap + MaxCapDays
  /\ now' = now + TicksPerDay
  /\ last' = NoCall
  /\ UNCHANGED <<profile, logs, exerciseLogs, impactHistory, windowBase, logChanges, counted, waterVars, retryVars>>

\* the operations that write the impact history: the backfill that follows
\* a new meal, a meal edit, and the corrections of a weigh-in
CapNext ==
  \/ CapTick
  \/ handleLogMeal
  \/ handleEditMealLog
  \/ handleUpdateWeight

CapSpec == CapInit /\ [][CapNext]_vars

\* the records are in ascending order of date
SortedByDate(hist) ==
  \A i \in 1..(Len(hist) - 1) : ~DateKeyLess(hist[i + 1].date, hist[i].date)

\* C21 (retention cap): in every reachable state the impact history is
\* sorted by date ascending and holds at most 365 records; of the stored
\* records and those a backfill adds, a step (backfill merge, meal edit,
\* weigh-in correction) leaves one out only when the history is then full,
\* and only one older than every record it keeps.
C21_RetentionCap ==
  [][LET new == backfillNewRecords(profile', logs', exerciseLogs', impactHistory, now')
         merged == existingDates(impactHistory) \cup
                     (IF EffectRan THEN DatesOf(new) ELSE {})
         dropped == merged \ existingDates(impactHistory')
     IN /\ SortedByDate(impactHistory) /\ Len(impactHistory) <= 365
        /\ SortedByDate(impactHistory') /\ Len(impactHistory') <= 365
        /\ dropped # {} =>
             /\ Len(impactHistory') = 365
             /\ \A date \in dropped, j \in 1..Len(impactHistory') :
                  DateKeyLess(date, impactHistory'[j].date)]_vars

\* the merge has dropped the oldest record of a full history
C21_Witness ==
  /\ Len(impactHistory) = 365
  /\ impactHistory[1].date # CivilDate(1)
  /\ last.effect # -1

\* C22 (missing lastWeightUpdate): a call of calibrateWeight on a profile
\* whose lastWeightUpdate is absent takes the current time for it and so the
\* REJECT branch: it returns a profile with weight = newWeight, no
\* corrections, and the calibrationFactor it was given.
C22_MissingLastWeightUpdate ==
  [][(WeighInStep /\ profile.lastWeightUpdate = 0) =>
       /\ last'.dayGap = 0
       /\ ~last'.calibrated
       /\ profile'.weight = last'.newWeight
       /\ last'.impactCorrections.isNull
       /\ profile'.calibrationFactor = profile.calibrationFactor
       /\ profile'.calibrationBaseWeight = profile.calibrationBaseWeight
       /\ profile'.lastWeightUpdate = profile.lastWeightUpdate]_vars

\* a weigh-in more than two days after the profile was stored without
\* lastWeightUpdate, with a day logged in between, has been a REJECT
C22_Witness ==
  /\ last.op = "handleUpdateWeight"
  /\ profile.lastWeightUpdate = 0
  /\ now >= StartTick + 2 * TicksPerDay
  /\ logs # <<>>
  /\ profile.weight = last.newWeight
  /\ ~last.calibrated

ExampleHeights == {175}
\* kcal eaten and kcal of exercise on each logged day (the example's, and
\* a day at maintenance)
ExampleMealCalories == {1600, 1849}
ExampleExerciseCalories == {100}
\* numbers of logged days (the example's is the last)
ExampleDayCounts == {3, 5, 7}
\* weights the scale may show (the example's is the first)
ExampleWeights == {R(795, 10), R(798, 10), I(80), R(805, 10)}

\* the last weigh-in: the evening of day 1; the next one: the morning of the
\* ninth day, 7 days and 12 hours later
ExampleLastUpdate == StartTick + 20 * TicksPerHour
ExampleNow == StartTick + 8 * TicksPerDay + 8 * TicksPerHour

exampleProfile ==
  onboardingProfile("male", 30, CHOOSE h \in ExampleHeights : TRUE, I(80),
                    ExampleLastUpdate)

\* one meal at noon of each of the n days after the day of the last weigh-in
exampleLogs(n, kcal) ==
  [i \in 1..n |-> [id |-> i,
                   timestamp |-> StartTick + i * TicksPerDay + 12 * TicksPerHour,
                   totalCalories |-> kcal]]

\* one exercise in the evening of each of these days
exampleExerciseLogs(n, kcal) ==
  [i \in 1..n |-> [id |-> i,
                   timestamp |-> StartTick + i * TicksPerDay + 18 * TicksPerHour,
                   caloriesBurned |-> kcal]]

ExampleInit ==
  /\ now = ExampleNow
  /\ profile = exampleProfile
  /\ windowBase = exampleProfile.weight
  /\ \E n \in ExampleDayCounts :
       /\ \E kcal \in ExampleMealCalories : logs = exampleLogs(n, kcal)
       /\ \E kcal \in ExampleExerciseCalories :
            exerciseLogs = exampleExerciseLogs(n, kcal)
  /\ impactHistory = <<>>
  /\ last = NoCall
  /\ logChanges = 0
  /\ counted = {}
  /\ WaterIdle
  /\ RetryIdle

\* the user steps on the scale
exampleWeighIn == \E newWeight \in ExampleWeights : UpdateWeight(newWeight, now)

ExampleNext == exampleWeighIn

ExampleSpec == ExampleInit /\ [][ExampleNext]_vars

\* the state of the worked example before the weigh-in
IsWorkedExample ==
  /\ profile = exampleProfile
  /\ logs = exampleLogs(7, 1600)
  /\ exerciseLogs = exampleExerciseLogs(7, 100)

\* |x - n/d| <= 1/(2d): x is n/d when rounded to the digits of 1/d
About(x, n, d) == RLeq(RAbs(RSub(x, R(n, d))), R(1, 2 * d))

WATER_NOTIFICATION_COOLDOWN_MS == 60
WATER_NOTIFICATION_CHECK_INTERVAL_MS == 30
DEFAULT_WATER_GOAL_ML == 2500

MaxWaterLogs == 1
MinutesPerDay == HoursPerDay * MinutesPerHour
\* the clock runs from 07:30 to 11:30 of local day 1
WaterStart == MinutesPerDay + 7 * MinutesPerHour + 30
WaterEnd == MinutesPerDay + 11 * MinutesPerHour + 30
\* minutes by which the clock advances between two events
WaterClockSteps == {30, 45}
\* a cup, and a bottle that reaches the smaller goal
WaterAmounts == {250, 1000}

\* the settings of the profile: the defaults (8 AM to 9 PM, two hours'
\* worth behind) and a short morning window with the smallest threshold
WaterSettings ==
  { [waterNotificationStartHour |-> 8, waterNotificationEndHour |-> 21,
     dailyWaterGoalMl |-> DEFAULT_WATER_GOAL_ML,
     waterNotificationDeviationHours |-> I(2)],
    [waterNotificationStartHour |-> 8, waterNotificationEndHour |-> 10,
     dailyWaterGoalMl |-> 1000,
     waterNotificationDeviationHours |-> R(1, 2)] }

waterSettingsProfile(s, tracking, notification) ==
  [waterTrackingEnabled |-> tracking,
   waterNotificationEnabled |-> notification,
   waterNotificationStartHour |-> s.waterNotificationStartHour,
   waterNotificationEndHour |-> s.waterNotificationEndHour,
   dailyWaterGoalMl |-> s.dailyWaterGoalMl,
   waterNotificationDeviationHours |-> s.waterNotificationDeviationHours]

\* now.getHours() + now.getMinutes() / 60
currentHour(t) == R(t % MinutesPerDay, MinutesPerHour)

canNotify == permission = "granted"

\* mutant of isInCooldown: the stored time is never looked at
isInCooldown_Never(lastTime, t) == FALSE

\* isInCooldown: lastTime is the stored item (0 when there is none)
isInCooldown(lastTime, t) ==
  IF lastTime = 0 THEN FALSE
  ELSE t - lastTime < WATER_NOTIFICATION_COOLDOWN_MS

\* getTodayWaterLogs: the logs of the local day of t
getTodayWaterLogs(ws, t) ==
  SelectSeq(ws, LAMBDA log : log.timestamp \div MinutesPerDay = t \div MinutesPerDay)

RECURSIVE SumAmounts(_)
\* todayWaterLogs.reduce((sum, log) => sum + log.amountMl, 0)
SumAmounts(ws) == IF ws = <<>> THEN 0 ELSE Head(ws).amountMl + SumAmounts(Tail(ws))

NoMessage == <<>>

\* checkWaterDeficit: the message to send (the millilitres still to drink,
\* which the message names), or NoMessage for null
checkWaterDeficit(p, todayWaterLogs, t) ==
  IF ~p.waterTrackingEnabled \/ ~p.waterNotificationEnabled THEN NoMessage
  ELSE
    LET hour == currentHour(t)
        startHour == I(p.waterNotificationStartHour)
        endHour == I(p.waterNotificationEndHour)
    IN IF RLess(hour, startHour) \/ RLeq(endHour, hour) THEN NoMessage
       ELSE
         LET dailyGoalMl == I(p.dailyWaterGoalMl)
             totalActiveHours == RSub(endHour, startHour)
             hoursElapsed == RSub(hour, startHour)
             expectedIntakeMl == RMul(RDiv(dailyGoalMl, totalActiveHours), hoursElapsed)
             deviationMl == RMul(RDiv(dailyGoalMl, totalActiveHours),
                                 p.waterNotificationDeviationHours)
             actualIntakeMl == I(SumAmounts(todayWaterLogs))
             deficit == RSub(expectedIntakeMl, actualIntakeMl)
         IN IF RLeq(dailyGoalMl, actualIntakeMl) THEN NoMessage
            ELSE IF RLess(deviationMl, deficit)
                 THEN <<Round(RSub(dailyGoalMl, actualIntakeMl))>>
                 ELSE NoMessage

\* runCheck, then sendWaterNotification when there is a message; shown is
\* whether the Notification constructor returns (it may throw)
runCheck(shown) ==
  LET message == checkWaterDeficit(waterProfile,
                                   getTodayWaterLogs(waterLogs, waterClock),
                                   waterClock)
      sends == /\ message # NoMessage
               /\ canNotify
               /\ ~isInCooldown(cooldownItem, waterClock)
               /\ shown
  IN /\ notifications' =
          IF sends THEN Append(notifications, [time |-> waterClock, body |-> message])
          ELSE notifications
     /\ cooldownItem' = IF sends THEN waterClock ELSE cooldownItem

RECURSIVE nextInterval(_, _)
\* the first time after t at which the interval due at due fires again
\* (a browser does not make up for the firings it missed)
nextInterval(due, t) ==
  IF due > t THEN due
  ELSE nextInterval(due + WATER_NOTIFICATION_CHECK_INTERVAL_MS, t)

\* the app is open on a profile with water tracking on; the user has
\* answered the permission prompt, and the effect has set its timers when
\* the reminder is on
WaterInit ==
  /\ now = StartTick
  /\ profile = exampleProfile
  /\ windowBase = exampleProfile.weight
  /\ logs = <<>>
  /\ exerciseLogs = <<>>
  /\ impactHistory = <<>>
  /\ last = NoCall
  /\ logChanges = 0
  /\ counted = {}
  /\ waterClock = WaterStart
  /\ \E s \in WaterSettings, on \in BOOLEAN :
       /\ waterProfile = waterSettingsProfile(s, TRUE, on)
       /\ initialTimeout = IF on THEN waterClock ELSE 0
       /\ interval = IF on THEN waterClock + WATER_NOTIFICATION_CHECK_INTERVAL_MS ELSE 0
  /\ waterLogs = <<>>
  /\ cooldownItem = 0
  /\ permission \in {"granted", "denied"}
  /\ notifications = <<>>
  /\ RetryIdle

WaterTick ==
  /\ \E m \in WaterClockSteps :
       /\ waterClock + m <= WaterEnd
       /\ waterClock' = waterClock + m
  /\ UNCHANGED <<waterProfile, waterLogs, cooldownItem, permission,
                 initialTimeout, interval, notifications>>
  /\ UNCHANGED <<engineVars, retryVars>>

\* setWaterLogs(prev => [...prev, log])
handleLogWater ==
  /\ Len(waterLogs) < MaxWaterLogs
  /\ \E ml \in WaterAmounts :
       waterLogs' = Append(waterLogs, [id |-> Len(waterLogs) + 1,
                                       timestamp |-> waterClock, amountMl |-> ml])
  /\ UNCHANGED <<waterClock, waterProfile, cooldownItem, permission,
                 initialTimeout, interval, notifications>>
  /\ UNCHANGED <<engineVars, retryVars>>

\* the reminder is switched on or off: the effect's cleanup clears both
\* timers, and the effect sets them again when the reminder is on
toggleWaterNotification ==
  /\ waterProfile' = [waterProfile EXCEPT !.waterNotificationEnabled = ~@]
  /\ initialTimeout' = IF waterProfile'.waterNotificationEnabled THEN waterClock ELSE 0
  /\ interval' = IF waterProfile'.waterNotificationEnabled
                 THEN waterClock + WATER_NOTIFICATION_CHECK_INTERVAL_MS ELSE 0
  /\ UNCHANGED <<waterClock, waterLogs, cooldownItem, permission, notifications>>
  /\ UNCHANGED <<engineVars, retryVars>>

\* setTimeout(runCheck, 5000) fires
initialCheck ==
  /\ initialTimeout # 0
  /\ waterClock >= initialTimeout
  /\ \E shown \in BOOLEAN : runCheck(shown)
  /\ initialTimeout' = 0
  /\ UNCHANGED <<waterClock, waterProfile, waterLogs, permission, interval>>
  /\ UNCHANGED <<engineVars, retryVars>>

\* setInterval(runCheck, WATER_NOTIFICATION_CHECK_INTERVAL_MS) fires
intervalCheck ==
  /\ interval # 0
  /\ waterClock >= interval
  /\ \E shown \in BOOLEAN : runCheck(shown)
  /\ interval' = nextInterval(interval, waterClock)
  /\ UNCHANGED <<waterClock, waterProfile, waterLogs, permission, initialTimeout>>
  /\ UNCHANGED <<engineVars, retryVars>>

WaterNext ==
  \/ WaterTick
  \/ handleLogWater
  \/ toggleWaterNotification
  \/ initialCheck
  \/ intervalCheck

WaterSpec == WaterInit /\ [][WaterNext]_vars

\* a notification is shown in this step
NotificationSent == Len(notifications') = Len(notifications) + 1

\* what the user drank on the local day of t
IntakeToday(t) ==
  SumAmounts(SelectSeq(waterLogs, LAMBDA log :
                         log.timestamp \div MinutesPerDay = t \div MinutesPerDay))

\* C25 (water reminder cooldown): whenever a check shows a notification,
\* every notification shown before is at least the cooldown period (one
\* hour) older, the user has not reached the daily goal today, and the time
\* of day is inside the notification window (start <= time < end).
C25_WaterReminderCooldown ==
  [][NotificationSent =>
       /\ \A i \in 1..Len(notifications) :
            waterClock - notifications[i].time >= MinutesPerHour
       /\ IntakeToday(waterClock) < waterProfile.dailyWaterGoalMl
       /\ waterClock % MinutesPerDay >=
            waterProfile.waterNotificationStartHour * MinutesPerHour
       /\ waterClock % MinutesPerDay <
            waterProfile.waterNotificationEndHour * MinutesPerHour]_vars

\* a second notification was shown, after checks that the cooldown, a
\* reached goal or the end of the window had silenced
C25_Witness ==
  /\ Len(notifications) >= 2
  /\ notifications[2].time - notifications[1].time >= MinutesPerHour
  /\ waterLogs # <<>>

(***************************************************************************)
(* Retry of the AI requests (withRetry)                                    *)
(*                                                                         *)
(* An error message is the sequence of its characters, so that includes    *)
(* and toLowerCase are computed as JavaScript computes them.               *)
(***************************************************************************)
MAX_RETRIES == 2

\* the messages of the errors fn may throw: a rate limit, a dropped
\* connection, a bad key, a refusal of the model, a payload too large, a
\* server error
ErrorMessages ==
  { <<"4", "2", "9">>,
    <<"F", "a", "i", "l", "e", "d", " ", "t", "o", " ", "f", "e", "t", "c", "h">>,
    <<"A", "P", "I", " ", "k", "e", "y", " ", "n", "o", "t", " ", "v", "a", "l", "i", "d">>,
    <<"C", "o", "u", "l", "d", " ", "n", "o", "t", " ", "g", "e", "n", "e", "r", "a", "t", "e">>,
    <<"4", "1", "3">>,
    <<"5", "0", "3", " ", "U", "n", "a", "v", "a", "i", "l", "a", "b", "l", "e">> }

\* the results fn may return: no food in the picture, or some items
Results == {"[]", "items"}

UpperCase == { "A", "C", "F", "I", "P", "U" }
LowerOf(c) ==
  IF c = "A" THEN "a" ELSE
  IF c = "C" THEN "c" ELSE
  IF c = "F" THEN "f" ELSE
  IF c = "I" THEN "i" ELSE
  IF c = "P" THEN "p" ELSE
  IF c = "U" THEN "u" ELSE c
\* msg.toLowerCase()
toLowerCase(msg) == [i \in 1..Len(msg) |-> IF msg[i] \in UpperCase THEN LowerOf(msg[i]) ELSE msg[i]]

\* lower.includes(pattern)
includes(lower, pattern) ==
  \E i \in 1..(Len(lower) - Len(pattern) + 1) :
    SubSeq(lower, i, i + Len(pattern) - 1) = pattern

includesAny(lower, patterns) == \E pattern \in patterns : includes(lower, pattern)

RetryablePatterns ==
  { <<"4", "2", "9">>,
    <<"r", "a", "t", "e">>,
    <<"q", "u", "o", "t", "a">>,
    <<"5", "0", "0">>,
    <<"5", "0", "3">>,
    <<"u", "n", "a", "v", "a", "i", "l", "a", "b", "l", "e">>,
    <<"i", "n", "t", "e", "r", "n", "a", "l">>,
    <<"r", "e", "s", "o", "u", "r", "c", "e", "_", "e", "x", "h", "a", "u", "s", "t", "e", "d">>,
    <<"n", "e", "t", "w", "o", "r", "k">>,
    <<"f", "e", "t", "c", "h">>,
    <<"t", "i", "m", "e", "o", "u", "t">>,
    <<"f", "a", "i", "l", "e", "d", " ", "t", "o", " ", "f", "e", "t", "c", "h">>,
    <<"e", "c", "o", "n", "n", "r", "e", "f", "u", "s", "e", "d">> }

\* mutant of isRetryable: every error is taken for a transient one
isRetryable_Always(error) == TRUE

isRetryable(error) == includesAny(toLowerCase(error), RetryablePatterns)

KeyPatterns == { <<"a", "p", "i", " ", "k", "e", "y">>,
                <<"a", "p", "i", "_", "k", "e", "y">>,
                <<"u", "n", "a", "u", "t", "h", "o", "r", "i", "z", "e", "d">>,
                <<"4", "0", "3">> }
RatePatterns == { <<"4", "2", "9">>,
                 <<"r", "a", "t", "e">>,
                 <<"q", "u", "o", "t", "a">>,
                 <<"r", "e", "s", "o", "u", "r", "c", "e", "_", "e", "x", "h", "a", "u", "s", "t", "e", "d">> }
SizePatterns == { <<"t", "o", "o", " ", "l", "a", "r", "g", "e">>,
                 <<"p", "a", "y", "l", "o", "a", "d">>,
                 <<"4", "1", "3">>,
                 <<"r", "e", "q", "u", "e", "s", "t", " ", "e", "n", "t", "i", "t", "y">> }
NetworkPatterns == { <<"n", "e", "t", "w", "o", "r", "k">>,
                    <<"f", "e", "t", "c", "h">>,
                    <<"t", "i", "m", "e", "o", "u", "t">>,
                    <<"f", "a", "i", "l", "e", "d", " ", "t", "o", " ", "f", "e", "t", "c", "h">>,
                    <<"e", "c", "o", "n", "n", "r", "e", "f", "u", "s", "e", "d">> }
ServerPatterns == { <<"5", "0", "0">>,
                   <<"5", "0", "3">>,
                   <<"i", "n", "t", "e", "r", "n", "a", "l">>,
                   <<"u", "n", "a", "v", "a", "i", "l", "a", "b", "l", "e">> }

\* getErrorMessage: the user-friendly message for an error
getErrorMessage(error) ==
  LET lower == toLowerCase(error)
  IN IF includesAny(lower, KeyPatterns)
       THEN "Invalid or missing API key. Please check your configuration."
     ELSE IF includesAny(lower, RatePatterns)
       THEN "Rate limit exceeded. Please wait a moment and try again."
     ELSE IF includesAny(lower, SizePatterns)
       THEN "Image is too large. Try taking a photo from further away or use text description instead."
     ELSE IF includesAny(lower, NetworkPatterns)
       THEN "Network error. Please check your internet connection and try again."
     ELSE IF includesAny(lower, ServerPatterns)
       THEN "AI service is temporarily unavailable. Please try again in a moment."
     ELSE <<"Analysis failed: ", error>>

\* attempt < MAX_RETRIES && isRetryable(error)
mayRetry(n, error) == n < MAX_RETRIES /\ isRetryable(error)

\* analyzeFoodImage or analyzeFoodDescription calls withRetry
RetryInit ==
  /\ now = StartTick
  /\ profile = exampleProfile
  /\ windowBase = exampleProfile.weight
  /\ logs = <<>>
  /\ exerciseLogs = <<>>
  /\ impactHistory = <<>>
  /\ last = NoCall
  /\ logChanges = 0
  /\ counted = {}
  /\ WaterIdle
  /\ attempt = 0
  /\ lastError = <<>>
  /\ pc = "try"
  /\ calls = <<>>
  /\ outcome = <<>>

\* return await fn(): fn returns
fnReturns ==
  /\ pc = "try"
  /\ \E result \in Results :
       /\ calls' = Append(calls, [ok |-> TRUE, value |-> result])
       /\ outcome' = [returned |-> TRUE, value |-> result]
  /\ pc' = "done"
  /\ UNCHANGED <<attempt, lastError>>
  /\ UNCHANGED <<engineVars, waterVars>>

\* the enriched error thrown after the loop
enrichedError(error) ==
  [returned |-> FALSE,
   value |-> [message |-> getErrorMessage(error), originalError |-> error]]

\* fn throws: the catch block, and after a break the throw of the enriched
\* error
fnThrows ==
  /\ pc = "try"
  /\ \E error \in ErrorMessages :
       /\ calls' = Append(calls, [ok |-> FALSE, value |-> error])
       /\ lastError' = error
       /\ IF mayRetry(attempt, error)
          THEN /\ pc' = "sleep"
               /\ outcome' = outcome
          ELSE /\ pc' = "done"
               /\ outcome' = enrichedError(error)
  /\ UNCHANGED attempt
  /\ UNCHANGED <<engineVars, waterVars>>

\* await sleep(RETRY_DELAYS[attempt]) is over; continue runs attempt++
wake ==
  /\ pc = "sleep"
  /\ attempt' = attempt + 1
  /\ IF attempt' <= MAX_RETRIES
     THEN pc' = "try" /\ outcome' = outcome
     ELSE pc' = "done" /\ outcome' = enrichedError(lastError)
  /\ UNCHANGED <<lastError, calls>>
  /\ UNCHANGED <<engineVars, waterVars>>

RetryNext == fnReturns \/ fnThrows \/ wake

\* every call of fn settles and every timer fires
RetrySpec ==
  /\ RetryInit
  /\ [][RetryNext]_vars
  /\ WF_vars(fnReturns \/ fnThrows)
  /\ WF_vars(wake)

\* the calls of fn before the last one
Earlier == 1..(Len(calls) - 1)

\* the errors of ErrorMessages that are transient: the rate limit, the
\* dropped connection, the server error, and the refusal, whose message
\* contains "rate"
Transient ==
  { <<"4", "2", "9">>,
    <<"F", "a", "i", "l", "e", "d", " ", "t", "o", " ", "f", "e", "t", "c", "h">>,
    <<"C", "o", "u", "l", "d", " ", "n", "o", "t", " ", "g", "e", "n", "e", "r", "a", "t", "e">>,
    <<"5", "0", "3", " ", "U", "n", "a", "v", "a", "i", "l", "a", "b", "l", "e">> }

\* C26 (bounded retry): fn is called at most 3 times; every call before
\* the last one threw an error classified as retryable (so the calls stop
\* at the first success and at the first non-retryable error); when
\* withRetry has ended after a success it returned fn's result, and when it
\* has ended after a failure it threw an error carrying the last failure,
\* that failure being non-retryable or the third; and every call ends.
C26_BoundedRetry ==
  /\ [](/\ Len(calls) <= 3
        /\ \A i \in Earlier : ~calls[i].ok /\ calls[i].value \in Transient
        /\ pc = "done" =>
             /\ calls # <<>>
             /\ LET final == calls[Len(calls)]
                IN IF final.ok
                   THEN outcome = [returned |-> TRUE, value |-> final.value]
                   ELSE /\ ~outcome.returned
                        /\ outcome.value.originalError = final.value
                        /\ Len(calls) = 3 \/ final.value \notin Transient)
  /\ <>(pc = "done")

\* the third call failed with a retryable error and withRetry threw it
C26_Witness ==
  /\ pc = "done"
  /\ Len(calls) = 3
  /\ ~outcome.returned
  /\ outcome.value.originalError \in Transient

(***************************************************************************)
(* The tri-state day-BMR policy                                            *)
(***************************************************************************)
\* kcal of the events of ls on local day d
KcalOn(ls, d, f) ==
  LET on == SelectSeq(ls, LAMBDA l : DayOf(l.timestamp) = d)
  IN SumField([i \in 1..Len(on) |-> [kcal |-> I(on[i][f])]], "kcal")

\* the BMR of local day d in a window that began at instant lu and is
\* closed at instant t
TriStateBmr(p, d, lu, t) ==
  LET bmr == RMul(I(p.bmr), p.calibrationFactor)
  IN IF d = DayOf(lu) /\ d # DayOf(t)
       THEN I(Round(RMul(RDiv(bmr, I(24)), R(EndOfDay(lu) - lu, TicksPerHour))))
     ELSE IF d = DayOf(t) /\ d # DayOf(lu)
       THEN I(Round(RDiv(RMul(bmr, R(t - StartOfDay(t), TicksPerHour)), I(24))))
     ELSE bmr

\* the days of the window that have a meal or an exercise
LoggedDays(ls, els, lu, t) ==
  {d \in DayOf(lu)..DayOf(t) :
     \/ \E i \in 1..Len(ls) : DayOf(ls[i].timestamp) = d
     \/ \E i \in 1..Len(els) : DayOf(els[i].timestamp) = d}

TriStateImpact(p, ls, els, d, lu, t) ==
  RDiv(RSub(RSub(KcalOn(ls, d, "totalCalories"), TriStateBmr(p, d, lu, t)),
            KcalOn(els, d, "caloriesBurned")),
       I(7700))

RECURSIVE SumOver(_, _, _, _, _, _, _)
\* the sum over the days of the set days of the impact (what = "impact") or
\* of the BMR (what = "bmr")
SumOver(days, what, p, ls, els, lu, t) ==
  IF days = {} THEN I(0)
  ELSE LET d == CHOOSE x \in days : TRUE
       IN RAdd(IF what = "impact" THEN TriStateImpact(p, ls, els, d, lu, t)
               ELSE TriStateBmr(p, d, lu, t),
               SumOver(days \ {d}, what, p, ls, els, lu, t))

\* C27 (tri-state day-BMR policy): in an ACCEPT weigh-in the prediction is
\* the sum, over the logged days of the window, of
\* (kcalIn - bmrBurned - kcalOut) / 7700, where bmrBurned is
\* round(effectiveBmr / 24 * hours from lastWeightUpdate to the end of the
\* day) on the day of lastWeightUpdate, round(effectiveBmr * hours since
\* midnight / 24) today, and effectiveBmr on every other day: the new
\* calibration factor and the corrections are the ones that follow from this
\* prediction and from the sum of these bmrBurned.
C27_TriStateDayBmr ==
  [][(WeighInStep /\ last'.calibrated) =>
       LET lu == profile.lastWeightUpdate
           days == LoggedDays(logs, exerciseLogs, lu, now)
           predicted == SumOver(days, "impact", profile, logs, exerciseLogs, lu, now)
           total == SumOver(days, "bmr", profile, logs, exerciseLogs, lu, now)
           predictionError == RSub(predicted, last'.actualChange)
           corr == last'.impactCorrections
       IN /\ profile'.calibrationFactor =
               newCalibrationFactor(profile, predicted, last'.actualChange,
                                    total, last'.dayGap)
          /\ corr.isNull <=> (days = {} \/ RLeq(RAbs(predictionError), R(1, 1000)))
          /\ ~corr.isNull =>
               /\ DatesOf(corr.list) = {CivilDate(d) : d \in days}
               /\ \A i \in 1..Len(corr.list) :
                    corr.list[i].correctionPerDay =
                      RDiv(predictionError, I(Cardinality(days)))]_vars

\* the ACCEPT of a window whose logged days are its first day (the day of
\* onboarding) and today was made
C27_Witness ==
  /\ last.op = "handleUpdateWeight" /\ last.calibrated
  /\ DayOf(now) > DayOf(StartTick)
  /\ DatesOf(last.impactCorrections.list) =
       {CivilDate(DayOf(StartTick)), CivilDate(DayOf(now))}

(***************************************************************************)
(* Dashboard: the predicted weight shown to the user                       *)
(***************************************************************************)
\* Dashboard line 82: Math.round(profile.bmr * (profile.calibrationFactor || 1.0))
roundedEffectiveBmr(p) == Round(RMul(I(p.bmr), factorOrDefault(p)))

\* kcal of the events of ls logged after instant lu
KcalAfter(ls, lu, f) ==
  LET after == SelectSeq(ls, LAMBDA l : l.timestamp > lu)
  IN SumField([i \in 1..Len(after) |-> [kcal |-> I(after[i][f])]], "kcal")

\* Dashboard.predictedWeight at instant t
predictedWeight(p, ls, els, t) ==
  LET lu == lastUpdate(p, t)
      caloriesIn == KcalAfter(ls, lu, "totalCalories")
      caloriesExercise == KcalAfter(els, lu, "caloriesBurned")
      hoursElapsed == RMax(I(0), HoursBetween(t, lu))
      burned == I(Round(RMul(RDiv(I(roundedEffectiveBmr(p)), I(HoursPerDay)),
                             hoursElapsed)))
      netCalories == RSub(RSub(caloriesIn, burned), caloriesExercise)
      weightChange == RDiv(netCalories, I(CALORIES_PER_KG_FAT))
  IN RAdd(p.weight, weightChange)

\* C28 (displayed prediction agrees with calibration): at every instant the
\* predicted weight the Dashboard shows is the calibration baseline plus
\* the predictedChange calibrateWeight would compute at that instant from
\* the same profile and logs.
C28_DisplayAgreesWithCalibration ==
  predictedWeight(profile, logs, exerciseLogs, now)
    = RAdd(baseWeight(profile), predictedChange(profile, logs, exerciseLogs, now))

(***************************************************************************)
(* Successive measurement windows                                          *)
(***************************************************************************)
\* hours by which the clock advances in WindowSpec: two weigh-ins a day
\* apart fit into the days of the model
WindowSteps == {12}

WindowTick ==
  /\ \E h \in WindowSteps :
       /\ now + h * TicksPerHour <= MaxTick
       /\ now' = now + h * TicksPerHour
  /\ last' = NoCall
  /\ UNCHANGED <<profile, logs, exerciseLogs, impactHistory, windowBase,
                 logChanges, counted, waterVars, retryVars>>

WindowNext ==
  \/ WindowTick
  \/ handleLogMeal
  \/ handleUpdateWeight
  \/ LoadUserData

WindowSpec == Init /\ [][WindowNext]_vars

\* C29 (no double counting across windows): an ACCEPT calibration sums
\* into its predictedChange no meal and no exercise that an earlier ACCEPT
\* calibration has summed into its own.
C29_NoDoubleCounting ==
  [][(WeighInStep /\ last'.calibrated) =>
       eventsInPeriod(logs, exerciseLogs, StartOfDay(profile.lastWeightUpdate), now)
         \cap counted = {}]_vars

\* C30 (baseline of a fresh profile): the first ACCEPT calibration of a
\* profile created by onboarding, reloaded in between or not, measures
\* actualChange from the onboarding weight, whatever REJECT weigh-ins were
\* submitted before it.
C30_FreshProfileBaseline ==
  [][(WeighInStep /\ last'.calibrated /\ profile.lastWeightUpdate = StartTick) =>
       /\ windowBase = profile.calibrationBaseWeight
       /\ last'.actualChange = RSub(last'.newWeight, windowBase)]_vars

\* the first ACCEPT (on day 2, a second one cannot be due yet) was made
\* after a REJECT had changed the displayed weight
C30_Witness ==
  /\ last.op = "handleUpdateWeight" /\ last.calibrated
  /\ DayOf(now) = 2
  /\ last.shown # windowBase
  /\ last.actualChange = RSub(last.newWeight, RSub(last.shown, R(1, 2)))

====
